---- MODULE Spec2Model ----
\* Model of check_brackets.py: a stack-based scan of a text file for
\* unmatched curly braces, followed by a printed verdict.
EXTENDS Integers, Sequences, FiniteSets, TLC

VARIABLES text, lines, i, j, stack, out, pc, run, prev

vars == <<text, lines, i, j, stack, out, pc, run, prev>>

\* ---------------------------------------------------------------- bounds
MaxFileLen == 6
MaxRuns == 2
MaxRunFileLen == 3

\* ------------------------------------------------------ program constants
\* the 5 of stack[-5:]
MaxExamples == 5

\* The characters a decoded file is made of: the two braces, the line
\* terminator, and one representative of every other character.
Chars == {"{", "}", "\n", " "}

Texts(n) == UNION {[1..m -> Chars] : m \in 0..n}

Min(a, b) == IF a < b THEN a ELSE b
Max(a, b) == IF a > b THEN a ELSE b

\* ------------------------------------------------------------- f.readlines
\* Every line keeps its terminating "\n"; the last line has none when the
\* file does not end in one.  No line is empty.
RECURSIVE SplitLines(_, _)
SplitLines(t, cur) ==
    IF t = <<>>
    THEN IF cur = <<>> THEN <<>> ELSE <<cur>>
    ELSE IF Head(t) = "\n"
         THEN <<Append(cur, "\n")>> \o SplitLines(Tail(t), <<>>)
         ELSE SplitLines(Tail(t), Append(cur, Head(t)))

readlines(t) == SplitLines(t, <<>>)

\* ------------------------------------------------------------ the findings
\* print(f'ERROR: Extra closing bracket at line {i}, column {j+1}')
ExtraClosing(l, c) == [kind |-> "extra", line |-> l, column |-> c]
\* print(f'ERROR: {len(stack)} unclosed brackets:')
Unclosed(n) == [kind |-> "unclosed", count |-> n]
\* print(f'  Opening at line {item[1]}, column {item[2]}')
Opening(l, c) == [kind |-> "opening", line |-> l, column |-> c]
\* print(f'ERROR: Extra closing brackets')
ExtraClosingBrackets == [kind |-> "extra_end"]
\* print('OK: All brackets matched')
AllMatched == [kind |-> "ok"]

\* --------------------------------------------------------- the scan's steps
IsOpen(ch) == ch = "{"

IsClose_Else(ch) == ch # "{"
IsClose(ch) == ch = "}"

\* stack.append(('open', i, j+1)), j being the 0-based index of enumerate
PushOpen(stk, ln, col) == Append(stk, <<"open", ln, col + 1>>)

\* if stack: last = stack.pop()
CloseStack_NoPop(stk) == stk
CloseStack_Clear(stk) == <<>>
CloseStack(stk) == IF stk # <<>> THEN SubSeq(stk, 1, Len(stk) - 1) ELSE stk

\* else: print(... line {i}, column {j+1})
CloseOut_ZeroBased(stk, o, ln, col) ==
    IF stk # <<>> THEN o ELSE Append(o, ExtraClosing(ln, col))
CloseOut(stk, o, ln, col) ==
    IF stk # <<>> THEN o ELSE Append(o, ExtraClosing(ln, col + 1))

\* stack[-n:]
LastN(s, n) == SubSeq(s, Max(1, Len(s) - n + 1), Len(s))

\* for item in stack[-5:]: print(Opening at item[1], item[2])
Examples_First(stk) ==
    [k \in 1..Min(MaxExamples, Len(stk)) |-> Opening(stk[k][2], stk[k][3])]
Examples_Reversed(stk) ==
    LET last == LastN(stk, MaxExamples)
    IN  [k \in 1..Len(last) |->
            Opening(last[Len(last) + 1 - k][2], last[Len(last) + 1 - k][3])]
Examples(stk) ==
    LET last == LastN(stk, MaxExamples)
    IN  [k \in 1..Len(last) |-> Opening(last[k][2], last[k][3])]

\* if stack: ... elif len(stack) < 0: ... else: ...
FinalReport_Both(stk) ==
    (IF stk # <<>> THEN <<Unclosed(Len(stk))>> \o Examples(stk) ELSE <<>>)
    \o <<AllMatched>>
FinalReport_LessThanOne(stk) ==
    IF stk # <<>>
    THEN <<Unclosed(Len(stk))>> \o Examples(stk)
    ELSE IF Len(stk) < 1
         THEN <<ExtraClosingBrackets>>
         ELSE <<AllMatched>>
FinalReport(stk) ==
    IF stk # <<>>
    THEN <<Unclosed(Len(stk))>> \o Examples(stk)
    ELSE IF Len(stk) < 0
         THEN <<ExtraClosingBrackets>>
         ELSE <<AllMatched>>

\* ------------------------------------------------------------------ state
InitWith(n) ==
    /\ text \in Texts(n)
    /\ lines = <<>>
    /\ i = 1
    /\ j = 0
    /\ stack = <<>>
    /\ out = <<>>
    /\ pc = "start"
    /\ run = 1
    /\ prev = <<>>

Init == InitWith(MaxFileLen)

InitRuns == InitWith(MaxRunFileLen)

\* lines 4-7: read the file, stack = []; the process begins with nothing
\* written to its standard output.
Start_KeepStack ==
    /\ pc = "start"
    /\ lines' = readlines(text)
    /\ i' = 1
    /\ j' = 0
    /\ out' = <<>>
    /\ pc' = "scan"
    /\ UNCHANGED <<text, stack, run, prev>>
Start ==
    /\ pc = "start"
    /\ lines' = readlines(text)
    /\ stack' = <<>>
    /\ i' = 1
    /\ j' = 0
    /\ out' = <<>>
    /\ pc' = "scan"
    /\ UNCHANGED <<text, run, prev>>

AtChar == pc = "scan" /\ i <= Len(lines) /\ j < Len(lines[i])

Char == lines[i][j + 1]

\* line 10-11
ScanOpen ==
    /\ AtChar
    /\ IsOpen(Char)
    /\ stack' = PushOpen(stack, i, j)
    /\ j' = j + 1
    /\ UNCHANGED <<text, lines, i, out, pc, run, prev>>

\* lines 12-16
ScanClose ==
    /\ AtChar
    /\ ~IsOpen(Char)
    /\ IsClose(Char)
    /\ stack' = CloseStack(stack)
    /\ out' = CloseOut(stack, out, i, j)
    /\ j' = j + 1
    /\ UNCHANGED <<text, lines, i, pc, run, prev>>

\* no branch of lines 10-16 applies
ScanOther ==
    /\ AtChar
    /\ ~IsOpen(Char)
    /\ ~IsClose(Char)
    /\ j' = j + 1
    /\ UNCHANGED <<text, lines, i, stack, out, pc, run, prev>>

\* line 9 exhausted: line 8 takes the next line
NextLine ==
    /\ pc = "scan"
    /\ i <= Len(lines)
    /\ j = Len(lines[i])
    /\ i' = i + 1
    /\ j' = 0
    /\ UNCHANGED <<text, lines, stack, out, pc, run, prev>>

\* lines 18-25
Report ==
    /\ pc = "scan"
    /\ i > Len(lines)
    /\ out' = out \o FinalReport(stack)
    /\ pc' = "done"
    /\ UNCHANGED <<text, lines, i, j, stack, run, prev>>

\* The process ends and the script is invoked again on the unchanged file.
Rerun ==
    /\ pc = "done"
    /\ run < MaxRuns
    /\ prev' = out
    /\ run' = run + 1
    /\ pc' = "start"
    /\ UNCHANGED <<text, lines, i, j, stack, out>>

Next ==
    \/ Start
    \/ ScanOpen
    \/ ScanClose
    \/ ScanOther
    \/ NextLine
    \/ Report

NextRuns ==
    \/ Next
    \/ Rerun

Spec == Init /\ [][Next]_vars

SpecRuns == InitRuns /\ [][NextRuns]_vars

\* ------------------------------------------- the scan as a pure function
\* lines 7-25 applied to the lines ls from (ln, col) on: the whole report.
RECURSIVE ScanFrom(_, _, _, _, _)
ScanFrom(ls, ln, col, stk, o) ==
    IF ln > Len(ls)
    THEN o \o FinalReport(stk)
    ELSE IF col = Len(ls[ln])
    THEN ScanFrom(ls, ln + 1, 0, stk, o)
    ELSE IF IsOpen(ls[ln][col + 1])
    THEN ScanFrom(ls, ln, col + 1, PushOpen(stk, ln, col), o)
    ELSE IF IsClose(ls[ln][col + 1])
    THEN ScanFrom(ls, ln, col + 1, CloseStack(stk), CloseOut(stk, o, ln, col))
    ELSE ScanFrom(ls, ln, col + 1, stk, o)

RunReport(t) == ScanFrom(readlines(t), 1, 0, <<>>, <<>>)

\* ------------------------------------- what the input says, by position
\* Index k of the file's text, as 1-based line and column.
LineOf(t, k) == 1 + Cardinality({n \in 1..(k - 1) : t[n] = "\n"})

LastBreakBefore(t, k) ==
    LET B == {n \in 1..(k - 1) : t[n] = "\n"}
    IN  IF B = {} THEN 0 ELSE CHOOSE n \in B : \A m \in B : m <= n

ColOf(t, k) == k - LastBreakBefore(t, k)

Opens(t, a, b) == Cardinality({n \in a..b : t[n] = "{"})
Closes(t, a, b) == Cardinality({n \in a..b : t[n] = "}"})
Bal(t, a, b) == Opens(t, a, b) - Closes(t, a, b)

\* The "{" at k has no matching later "}".
UnmatchedOpen(t, k) ==
    /\ t[k] = "{"
    /\ \A m \in (k + 1)..Len(t) : Bal(t, k + 1, m) >= 0

\* The "}" at m has no matching earlier "{".
UnmatchedClose(t, m) ==
    /\ t[m] = "}"
    /\ \A k \in 1..(m - 1) : Bal(t, k, m - 1) <= 0

UnmatchedOpens(t) == {k \in 1..Len(t) : UnmatchedOpen(t, k)}
UnmatchedCloses(t, p) == {m \in 1..p : UnmatchedClose(t, m)}
MatchedCloses(t, p) == {m \in 1..p : t[m] = "}" /\ ~UnmatchedClose(t, m)}

WellNested(t) ==
    /\ \A m \in 1..Len(t) : Bal(t, 1, m) >= 0
    /\ Bal(t, 1, Len(t)) = 0

Balanced(t) == UnmatchedOpens(t) = {} /\ UnmatchedCloses(t, Len(t)) = {}

RECURSIVE Ascending(_)
Ascending(S) ==
    IF S = {} THEN <<>>
    ELSE LET lo == CHOOSE n \in S : \A m \in S : n <= m
         IN  <<lo>> \o Ascending(S \ {lo})

\* The n greatest members of S.
Greatest(S, n) == {k \in S : Cardinality({m \in S : m > k}) < n}

RECURSIVE SumLen(_, _)
SumLen(ls, n) == IF n = 0 THEN 0 ELSE Len(ls[n]) + SumLen(ls, n - 1)

\* How many characters of the text the scan has processed.
Scanned == SumLen(lines, i - 1) + j

OfKind(o, kd) == SelectSeq(o, LAMBDA f : f.kind = kd)
KindAt(o, kd) == {k \in DOMAIN o : o[k].kind = kd}
PosOf(f) == <<f.line, f.column>>

\* ------------------------------------------------------------ properties
Extras(o) == OfKind(o, "extra")
Openings(o) == OfKind(o, "opening")
Terminals(o) == KindAt(o, "unclosed") \cup KindAt(o, "ok")
FileLoc(t, k) == <<LineOf(t, k), ColOf(t, k)>>

\* C1: the report is zero or more extra-closer findings followed by exactly
\* one terminal finding, either the unclosed count with its example lines or
\* "all matched"; never both, never none once the run has ended, and no
\* extra-closer finding comes after the terminal finding.
C1_ReportShape ==
    /\ pc = "scan" => \A k \in DOMAIN out : out[k].kind = "extra"
    /\ pc = "done" =>
         /\ Cardinality(Terminals(out)) = 1
         /\ \A t \in Terminals(out) :
              /\ \A k \in 1..(t - 1) : out[k].kind = "extra"
              /\ \A k \in (t + 1)..Len(out) :
                    out[t].kind = "unclosed" /\ out[k].kind = "opening"
              /\ out[t].kind = "unclosed" => t < Len(out)

C1_Witness ==
    /\ pc = "done"
    /\ Len(Extras(out)) >= 2
    /\ KindAt(out, "unclosed") # {}
    /\ Len(Openings(out)) >= 2

\* C2: a well-nested input (one without braces and the empty file included)
\* ends in "all matched" and emits no extra-closer finding during the scan.
C2_WellNestedIsOK ==
    WellNested(text) =>
        /\ pc = "scan" => out = <<>>
        /\ pc = "done" => out = <<AllMatched>>

C2_Witness ==
    /\ pc = "done"
    /\ WellNested(text)
    /\ Opens(text, 1, Len(text)) >= 2
    /\ Len(lines) >= 2
    /\ out = <<AllMatched>>

\* C3: with N >= 1 unmatched "{" at the end of the scan the reported count
\* is N and the examples are exactly min(N, 5) lines, the file positions of
\* the min(N, 5) most recently opened unmatched "{".
C3_UnclosedCountAndExamples ==
    (pc = "done" /\ UnmatchedOpens(text) # {}) =>
        LET U == UnmatchedOpens(text)
            N == Cardinality(U)
        IN  /\ OfKind(out, "unclosed") = <<Unclosed(N)>>
            /\ Len(Openings(out)) = Min(N, 5)
            /\ {PosOf(Openings(out)[k]) : k \in DOMAIN Openings(out)}
                 = {FileLoc(text, k) : k \in Greatest(U, 5)}

C3_Witness ==
    /\ pc = "done"
    /\ Cardinality(UnmatchedOpens(text)) > 5
    /\ Len(Openings(out)) = 5

\* C4 as stated: the example lines are printed most recent first, each later
\* line being an earlier-opened brace.
C4_MostRecentFirst ==
    pc = "done" =>
        Openings(out) =
            LET A == Ascending(Greatest(UnmatchedOpens(text), 5))
            IN  [k \in 1..Len(A) |->
                    Opening(LineOf(text, A[Len(A) + 1 - k]),
                            ColOf(text, A[Len(A) + 1 - k]))]

\* C4 amended: the example lines are printed in the order the braces were
\* opened, the earliest of the (up to five) last unmatched "{" first and
\* the most recently opened one last.
C4_OldestFirst ==
    pc = "done" =>
        Openings(out) =
            LET A == Ascending(Greatest(UnmatchedOpens(text), 5))
            IN  [k \in 1..Len(A) |->
                    Opening(LineOf(text, A[k]), ColOf(text, A[k]))]

C4_Witness ==
    /\ pc = "done"
    /\ Len(Openings(out)) >= 3
    /\ Openings(out)[1].line < Openings(out)[Len(Openings(out))].line

\* C5: after any prefix of the input the stack size is the number of "{" seen
\* minus the number of "}" seen that had a "{" to match; a "}" met on an
\* empty stack does not change the size.
C5_StackSize ==
    pc \in {"scan", "done"} =>
        Len(stack) = Opens(text, 1, Scanned)
                       - Cardinality(MatchedCloses(text, Scanned))

C5_Witness ==
    /\ pc = "scan"
    /\ stack # <<>>
    /\ UnmatchedCloses(text, Scanned) # {}
    /\ MatchedCloses(text, Scanned) # {}

\* C6: at the end of the scan the stack is empty exactly when all braces of
\* the input balance, and "all matched" is printed exactly for balanced
\* inputs.
C6_EmptyIffBalanced ==
    pc = "done" =>
        /\ (stack = <<>>) <=> Balanced(text)
        /\ (KindAt(out, "ok") # {}) <=> Balanced(text)

\* C7: an extra-closer finding is emitted exactly when the scanned character
\* is "}" and the stack is empty at that moment; it is emitted at that step,
\* carries the character's 1-based line and column, and leaves the stack
\* empty.  The single line "} {" reports the extra closer at (1, 1), then one
\* unclosed bracket opened at (1, 3).
C7_ExtraCloser ==
    [][ /\ (AtChar /\ Char = "}" /\ stack = <<>>) =>
              /\ out' = Append(out, ExtraClosing(LineOf(text, Scanned + 1),
                                                 ColOf(text, Scanned + 1)))
              /\ stack' = <<>>
        /\ (pc = "scan" /\ ~(AtChar /\ Char = "}" /\ stack = <<>>)) =>
              Extras(out') = Extras(out)
        /\ (pc = "scan" /\ pc' = "done" /\ text = <<"}", " ", "{">>) =>
              out' = <<ExtraClosing(1, 1), Unclosed(1), Opening(1, 3)>>
      ]_vars

C7_Witness ==
    /\ pc = "done"
    /\ Len(lines) >= 2
    /\ \E k \in DOMAIN out :
          out[k].kind = "extra" /\ out[k].line = 2 /\ out[k].column = 2

\* C8: a second run on the unchanged input prints the same report as the
\* first; every run starts with an empty stack, and the report is the
\* function of the input lines alone.
C8_SameReportTwice ==
    /\ (pc = "scan" /\ i = 1 /\ j = 0) => stack = <<>>
    /\ (pc = "done" /\ run > 1) => out = prev
    /\ pc = "done" => out = RunReport(text)

C8_Witness ==
    /\ pc = "done"
    /\ run > 1
    /\ stack # <<>>
    /\ Extras(out) # <<>>

\* Some of the characters that are neither brace nor line terminator.
OtherChars == {"(", ")", "[", "]", "\"", "'", "/", "*", "x"}

Subst(t, c) == [k \in DOMAIN t |-> IF t[k] = " " THEN c ELSE t[k]]

\* C9: a character other than "{" and "}" changes neither the stack nor the
\* output, every "{" and "}" is acted on whatever surrounds it, and the
\* report is the same when the other characters are replaced by any others.
C9_OnlyBracesCount ==
    [][ /\ (AtChar /\ Char \notin {"{", "}"}) =>
              stack' = stack /\ out' = out
        /\ (AtChar /\ Char = "{") => Len(stack') = Len(stack) + 1
        /\ (AtChar /\ Char = "}") =>
              \/ Len(stack') = Len(stack) - 1 /\ out' = out
              \/ stack' = stack /\ Len(out') = Len(out) + 1
        /\ (pc = "scan" /\ pc' = "done") =>
              \A c \in OtherChars : out' = RunReport(Subst(text, c))
      ]_vars

C9_Witness ==
    /\ pc = "done"
    /\ \E a, b, c \in DOMAIN text :
          /\ a < b /\ b < c
          /\ text[a] = "{" /\ text[b] = " " /\ text[c] = "}"
    /\ out = <<AllMatched>>

\* C10: the "Extra closing brackets" message of the len(stack) < 0 branch is
\* never part of a report.
C10_DeadBranch ==
    \A k \in DOMAIN out : out[k].kind # "extra_end"

C10_Witness ==
    /\ pc = "done"
    /\ stack = <<>>
    /\ Len(Extras(out)) >= 2

====
